---- MODULE Spec2Model ----
(***************************************************************************)
(* A model of asana_sales_pilot_export_v5_pivots_single_sheet.py: the      *)
(* helpers (normalize_upper, _alias_hit, zone_from_project,                *)
(* _try_parse_money, _fmt_mmddyyyy, get_fee_pct, extract_fields) and the   *)
(* loop of build_dataframe over projects and tasks.                        *)
(*                                                                         *)
(* Representation.                                                         *)
(*  - A Python str is a TLA+ string; its characters are the one-character  *)
(*    strings SubSeq(s, i, i).                                             *)
(*  - An optional value (None or v) is the sequence <<>> or <<v>>.         *)
(*  - A Python float is an exact rational [n |-> numerator,                *)
(*    d |-> denominator > 0] in lowest terms; rounding is not modelled.    *)
(*  - A raised exception is a value of the form [exc |-> name]: a try      *)
(*    block tests for it, and elsewhere it ends the run (pc = "raised").   *)
(*  - Where the source binds a local variable that is used more than once, *)
(*    the model passes the value as an operator argument (FmtOf(val, dt)   *)
(*    for dt = dateparse.parse(val)), so that each call is written once.   *)
(***************************************************************************)
EXTENDS Integers, Sequences, FiniteSets, TLC

VARIABLES
    projects,     \* build_dataframe's argument: the ordered project list
    source,       \* the task source: project gid -> task list, or an ApiException
    done_cutoff,  \* build_dataframe's argument: the cutoff text ("" for none)
    fees_map,     \* build_dataframe's argument: client -> type -> fraction
    pidx,         \* position of the outer loop (for p in projects)
    tasks,        \* the list fetch_project_tasks returned for projects[pidx]
    tidx,         \* position of the inner loop (for t in tasks)
    rows,         \* the output record collection
    pc,           \* "run", "done", "raised"; "idle" when no run is modelled
    call          \* one call of a parser: [fn, arg, ret, returned]

vars == <<projects, source, done_cutoff, fees_map, pidx, tasks, tidx, rows, pc, call>>

runVars == <<projects, source, done_cutoff, fees_map, pidx, tasks, tidx, rows, pc>>

(***************************************************************************)
(* Bounds of the model.                                                    *)
(***************************************************************************)
MaxMoneyLen == 3

MaxDateLen == 3

MaxProjects == 2

MaxTasks == 2

\* the most custom fields of a task of the paid family
MaxPaidFields == 2

(***************************************************************************)
(* Python values.                                                          *)
(***************************************************************************)
None == <<>>

Some(v) == <<v>>

Val(o) == o[1]

IsExc(v) == DOMAIN v = {"exc"}

ValueError == [exc |-> "ValueError"]

ZeroDivisionError == [exc |-> "ZeroDivisionError"]

RECURSIVE GCD(_, _)
GCD(a, b) == IF b = 0 THEN a ELSE GCD(b, a % b)

Abs(i) == IF i < 0 THEN -i ELSE i

Q(n, d) ==
    LET s == IF d < 0 THEN -1 ELSE 1
        g == GCD(Abs(n), Abs(d))
    IN  [n |-> (s * n) \div g, d |-> (s * d) \div g]

Num(i) == [n |-> i, d |-> 1]

Zero == Num(0)

One == Num(1)

QAdd(a, b) == Q(a.n * b.d + b.n * a.d, a.d * b.d)

QSub(a, b) == Q(a.n * b.d - b.n * a.d, a.d * b.d)

QMul(a, b) == Q(a.n * b.n, a.d * b.d)

\* Python's a / b on floats
PyDiv(a, b) == IF b.n = 0 THEN ZeroDivisionError ELSE Q(a.n * b.d, a.d * b.n)

RECURSIVE Pow10(_)
Pow10(k) == IF k = 0 THEN 1 ELSE 10 * Pow10(k - 1)

(***************************************************************************)
(* Python str operations.                                                  *)
(***************************************************************************)
Char(s, i) == SubSeq(s, i, i)

\* sub in s
Contains(s, sub) ==
    \E i \in 1..(Len(s) - Len(sub) + 1) : SubSeq(s, i, i + Len(sub) - 1) = sub

Lower == <<"a","b","c","d","e","f","g","h","i","j","k","l","m",
           "n","o","p","q","r","s","t","u","v","w","x","y","z",
           "á","é","í","ó","ú">>

Upper == <<"A","B","C","D","E","F","G","H","I","J","K","L","M",
           "N","O","P","Q","R","S","T","U","V","W","X","Y","Z",
           "Á","É","Í","Ó","Ú">>

UpperChar(c) ==
    IF \E k \in DOMAIN Lower : Lower[k] = c
    THEN Upper[CHOOSE k \in DOMAIN Lower : Lower[k] = c]
    ELSE c

LowerChar(c) ==
    IF \E k \in DOMAIN Upper : Upper[k] = c
    THEN Lower[CHOOSE k \in DOMAIN Upper : Upper[k] = c]
    ELSE c

RECURSIVE StrUpper(_)
StrUpper(s) == IF s = "" THEN "" ELSE UpperChar(Char(s, 1)) \o StrUpper(SubSeq(s, 2, Len(s)))

RECURSIVE StrLower(_)
StrLower(s) == IF s = "" THEN "" ELSE LowerChar(Char(s, 1)) \o StrLower(SubSeq(s, 2, Len(s)))

RECURSIVE LStrip(_, _)
LStrip(s, cs) ==
    IF s # "" /\ Char(s, 1) \in cs THEN LStrip(SubSeq(s, 2, Len(s)), cs) ELSE s

RECURSIVE RStrip(_, _)
RStrip(s, cs) ==
    IF s # "" /\ Char(s, Len(s)) \in cs THEN RStrip(SubSeq(s, 1, Len(s) - 1), cs) ELSE s

\* s.strip(cs)
StripChars(s, cs) == RStrip(LStrip(s, cs), cs)

WSChars == {" ", "\t", "\n", "\r", "\f"}

\* s.strip()
Strip(s) == StripChars(s, WSChars)

\* s.replace(a, b) for a one-character a
RECURSIVE Replace(_, _, _)
Replace(s, a, b) ==
    IF s = "" THEN ""
    ELSE (IF Char(s, 1) = a THEN b ELSE Char(s, 1)) \o Replace(SubSeq(s, 2, Len(s)), a, b)

\* position of the first occurrence of the character c in s, 0 when absent
FirstIndex(s, c) ==
    IF Contains(s, c) THEN CHOOSE i \in 1..Len(s) : Char(s, i) = c /\ ~Contains(SubSeq(s, 1, i - 1), c)
    ELSE 0

\* s.split(c, 1)[0]
BeforeFirst(s, c) == IF Contains(s, c) THEN SubSeq(s, 1, FirstIndex(s, c) - 1) ELSE s

\* s.split(c, 1)[1] when c is in s
AfterFirst(s, c) == SubSeq(s, FirstIndex(s, c) + 1, Len(s))

Least(ps) == CHOOSE i \in ps : \A j \in ps : i <= j

Greatest(ps) == CHOOSE i \in ps : \A j \in ps : i >= j

\* the text after the last whitespace character of r
AfterLastSpace(r) == SubSeq(r, Greatest({0} \cup {i \in 1..Len(r) : Char(r, i) \in WSChars}) + 1, Len(r))

\* s.split()[-1]: the last whitespace-delimited token (s has one)
LastToken(s) == AfterLastSpace(RStrip(s, WSChars))

Digits == {"0","1","2","3","4","5","6","7","8","9"}

DigitVal(c) == CHOOSE k \in 0..9 : Char("0123456789", k + 1) = c

AllDigits(s) == s # "" /\ \A i \in 1..Len(s) : Char(s, i) \in Digits

RECURSIVE IntOf(_)
IntOf(s) == IF s = "" THEN 0 ELSE 10 * IntOf(SubSeq(s, 1, Len(s) - 1)) + DigitVal(Char(s, Len(s)))

\* all strings over the characters cs of length 0..n
RECURSIVE Strings(_, _)
Strings(cs, n) ==
    IF n = 0 THEN {""}
    ELSE LET shorter == Strings(cs, n - 1)
         IN  shorter \cup {s \o c : s \in shorter, c \in cs}

(***************************************************************************)
(* normalize_upper                                                         *)
(***************************************************************************)
\* unicodedata.normalize("NFD", s) without its combining marks (category Mn),
\* on the accented letters of the model's texts
Accented == <<"á", "é", "í", "ó", "ú", "Á", "É", "Í", "Ó", "Ú">>

Unaccented == <<"a", "e", "i", "o", "u", "A", "E", "I", "O", "U">>

BaseChar(c) ==
    IF \E k \in 1..10 : Accented[k] = c
    THEN Unaccented[CHOOSE k \in 1..10 : Accented[k] = c]
    ELSE c

RECURSIVE StripMarks(_)
StripMarks(s) == IF s = "" THEN "" ELSE BaseChar(Char(s, 1)) \o StripMarks(SubSeq(s, 2, Len(s)))

normalize_upper(s) == IF s = "" THEN "" ELSE Strip(StrUpper(StripMarks(s)))


(***************************************************************************)
(* float(s) of Python on the texts of the model: an optional sign, digits  *)
(* with at most one period and at least one digit.  (Exponents, inf, nan   *)
(* and underscores need characters that are not in the model's texts.)     *)
(***************************************************************************)
FloatOfParts(neg, ip, fp) ==
    IF /\ ip \o fp # ""
       /\ ip = "" \/ AllDigits(ip)
       /\ fp = "" \/ AllDigits(fp)
    THEN Q((IF neg THEN -1 ELSE 1) * IntOf(ip \o fp), Pow10(Len(fp)))
    ELSE ValueError

FloatOfBody(neg, body) ==
    FloatOfParts(neg, BeforeFirst(body, "."), IF Contains(body, ".") THEN AfterFirst(body, ".") ELSE "")

FloatOfStripped(s) ==
    IF s # "" /\ Char(s, 1) \in {"-", "+"}
    THEN FloatOfBody(Char(s, 1) = "-", SubSeq(s, 2, Len(s)))
    ELSE FloatOfBody(FALSE, s)

PyFloat(s) == FloatOfStripped(Strip(s))

(***************************************************************************)
(* _try_parse_money                                                        *)
(***************************************************************************)
\* re.sub(r"[^\\d,.\\-]", "", s): in the raw pattern, \\ is an escaped
\* backslash and d a literal letter, so the class keeps backslash, "d",
\* comma, period and minus, and every other character is removed.
MoneyKept == {"\\", "d", ",", ".", "-"}

RECURSIVE MoneySub(_)
MoneySub(s) ==
    IF s = "" THEN ""
    ELSE (IF Char(s, 1) \in MoneyKept THEN Char(s, 1) ELSE "") \o MoneySub(SubSeq(s, 2, Len(s)))

\* the three attempts, in order: f1 = float(s.replace(",", "")),
\* f2 = float(s.replace(",", ".")), f3 = float(s)
MoneyPick(s, f1, f2, f3) ==
    IF Contains(s, ",") /\ Contains(s, ".") /\ ~IsExc(f1) THEN Some(f1)
    ELSE IF Contains(s, ",") /\ ~Contains(s, ".") /\ ~IsExc(f2) THEN Some(f2)
    ELSE IF ~IsExc(f3) THEN Some(f3)
    ELSE None

MoneyOfKept(s) ==
    IF s = "" THEN None
    ELSE MoneyPick(s, PyFloat(Replace(s, ",", "")), PyFloat(Replace(s, ",", ".")), PyFloat(s))

\* raw: None or Some(text); the result: None or Some(float)
_try_parse_money(raw) ==
    IF raw = None \/ Val(raw) = "" THEN None
    ELSE MoneyOfKept(MoneySub(StrUpper(Strip(Val(raw)))))

(***************************************************************************)
(* Dates.  A date is [y, m, d].                                            *)
(***************************************************************************)
IsLeap(y) == (y % 4 = 0 /\ y % 100 # 0) \/ y % 400 = 0

DaysIn(y, m) ==
    IF m = 2 THEN (IF IsLeap(y) THEN 29 ELSE 28)
    ELSE IF m \in {4, 6, 9, 11} THEN 30 ELSE 31

ValidDate(y, m, d) == y >= 1 /\ m \in 1..12 /\ d \in 1..DaysIn(y, m)

DateLess(a, b) ==
    \/ a.y < b.y
    \/ a.y = b.y /\ a.m < b.m
    \/ a.y = b.y /\ a.m = b.m /\ a.d < b.d

DigitStr(k) == Char("0123456789", k + 1)

Pad2(k) == DigitStr((k \div 10) % 10) \o DigitStr(k % 10)

Pad4(k) == Pad2(k \div 100) \o Pad2(k % 100)

\* dt.strftime("%m/%d/%Y")
StrfMDY(dt) == Pad2(dt.m) \o "/" \o Pad2(dt.d) \o "/" \o Pad4(dt.y)

\* dt.strftime("%Y-%m")
StrfYM(dt) == Pad4(dt.y) \o "-" \o Pad2(dt.m)

\* the date of three numerals, or ValueError
DateOf(ys, ms, ds) ==
    IF /\ AllDigits(ys) /\ Len(ys) = 4
       /\ AllDigits(ms) /\ Len(ms) \in 1..2
       /\ AllDigits(ds) /\ Len(ds) \in 1..2
       /\ ValidDate(IntOf(ys), IntOf(ms), IntOf(ds))
    THEN [y |-> IntOf(ys), m |-> IntOf(ms), d |-> IntOf(ds)]
    ELSE ValueError

\* datetime.strptime(s, "%Y-%m-%d"): a date or ValueError
StrptimeRest(ys, rest) ==
    IF Contains(rest, "-") THEN DateOf(ys, BeforeFirst(rest, "-"), AfterFirst(rest, "-"))
    ELSE ValueError

Strptime(s) ==
    IF Contains(s, "-") THEN StrptimeRest(BeforeFirst(s, "-"), AfterFirst(s, "-"))
    ELSE ValueError

\* "HH:MM:SS", optionally followed by ".000" and "Z", with a valid time of day
ValidClock(s) ==
    /\ Len(s) >= 8
    /\ AllDigits(SubSeq(s, 1, 2)) /\ Char(s, 3) = ":"
    /\ AllDigits(SubSeq(s, 4, 5)) /\ Char(s, 6) = ":"
    /\ AllDigits(SubSeq(s, 7, 8))
    /\ IntOf(SubSeq(s, 1, 2)) <= 23
    /\ IntOf(SubSeq(s, 4, 5)) <= 59
    /\ IntOf(SubSeq(s, 7, 8)) <= 59
    /\ SubSeq(s, 9, Len(s)) \in {"", "Z", ".000", ".000Z"}

\* Characters of which no text is a date for dateutil: letters that spell no
\* month, weekday or number, and the space.
NoDateChars == {"T", "B", "D", "x", " "}

(***************************************************************************)
(* dateutil.parser.parse(s) and parse(s, fuzzy=True), the library the      *)
(* script calls, on the three shapes of text the model uses:               *)
(*   YYYY-MM-DD, alone or followed by T and a time of day: that date, or   *)
(*     ParserError when the date or the time is out of range;              *)
(*   MM/DD/YYYY: that date, or ParserError when out of range;              *)
(*   a text of NoDateChars only, or the empty text: ParserError.           *)
(* On these shapes fuzzy makes no difference.                              *)
(***************************************************************************)
ParserError == [exc |-> "ParserError"]

DateIfValid(dt, ok) == IF IsExc(dt) \/ ~ok THEN ParserError ELSE dt

DateutilParse(s) ==
    IF Len(s) >= 10 /\ Char(s, 5) = "-" /\ Char(s, 8) = "-"
    THEN DateIfValid(DateOf(SubSeq(s, 1, 4), SubSeq(s, 6, 7), SubSeq(s, 9, 10)),
                     Len(s) = 10 \/ (Char(s, 11) = "T" /\ ValidClock(SubSeq(s, 12, Len(s)))))
    ELSE IF Len(s) = 10 /\ Char(s, 3) = "/" /\ Char(s, 6) = "/"
    THEN DateIfValid(DateOf(SubSeq(s, 7, 10), SubSeq(s, 1, 2), SubSeq(s, 4, 5)), TRUE)
    ELSE ParserError

(***************************************************************************)
(* _fmt_mmddyyyy                                                           *)
(***************************************************************************)
\* try: return datetime.strptime(s, "%Y-%m-%d").strftime(...)  except: return s
FmtStrict(s, d) == IF IsExc(d) THEN s ELSE StrfMDY(d)

\* the except branch: s = str(val), cut at the first "T"
FmtExcept(s) == FmtStrict(s, Strptime(s))

\* dt = dateparse.parse(str(val), fuzzy=True)
FmtOf(val, dt) ==
    IF ~IsExc(dt) THEN StrfMDY(dt)
    ELSE FmtExcept(IF Contains(val, "T") THEN BeforeFirst(val, "T") ELSE val)

_fmt_mmddyyyy(val) == IF val = "" THEN "" ELSE FmtOf(val, DateutilParse(val))

(***************************************************************************)
(* The parsers called alone: one call of _try_parse_money or of            *)
(* _fmt_mmddyyyy on an input drawn from a bounded set of texts.            *)
(***************************************************************************)
MoneyChars == {"1", "2", ",", ".", "-", "a", "d", "\\", " "}

MoneyTexts == Strings(MoneyChars, MaxMoneyLen) \cup {"1,234.56", "1000", "abc", "$1,000"}

MoneyInputs == {None} \cup {Some(s) : s \in MoneyTexts}

DateTexts ==
    Strings(NoDateChars \ {" "}, MaxDateLen)
        \cup {"2024-03-15T10:00:00", "2024-03-15", "03/15/2024", "2024-03-15T25:00:00",
              "2024-02-30", "NOT SENT", "x x"}

IdleRun ==
    /\ projects = <<>>
    /\ source = <<>>
    /\ done_cutoff = ""
    /\ fees_map = <<>>
    /\ pidx = 0
    /\ tasks = <<>>
    /\ tidx = 0
    /\ rows = <<>>
    /\ pc = "idle"

InitParsers ==
    /\ IdleRun
    /\ \/ \E raw \in MoneyInputs :
            call = [fn |-> "_try_parse_money", arg |-> raw, returned |-> FALSE, ret |-> None]
       \/ \E val \in DateTexts :
            call = [fn |-> "_fmt_mmddyyyy", arg |-> val, returned |-> FALSE, ret |-> ""]

CallMoney ==
    /\ call.fn = "_try_parse_money" /\ ~call.returned
    /\ call' = [call EXCEPT !.returned = TRUE, !.ret = _try_parse_money(call.arg)]
    /\ UNCHANGED runVars

CallDate ==
    /\ call.fn = "_fmt_mmddyyyy" /\ ~call.returned
    /\ call' = [call EXCEPT !.returned = TRUE, !.ret = _fmt_mmddyyyy(call.arg)]
    /\ UNCHANGED runVars

NextParsers == CallMoney \/ CallDate

SpecParsers == InitParsers /\ [][NextParsers]_vars

(***************************************************************************)
(* C5.  parseMoney keeps only digits, comma, period and minus of its input *)
(* and returns the number they denote (comma removed when a period is also *)
(* present, comma as the decimal point when alone, parsed directly         *)
(* otherwise), and none when nothing parsable remains: every returned call *)
(* of _try_parse_money returns ParseMoneyClaimed of its argument.          *)
(***************************************************************************)
RECURSIVE KeepMoneyChars(_)
KeepMoneyChars(s) ==
    IF s = "" THEN ""
    ELSE (IF Char(s, 1) \in Digits \cup {",", ".", "-"} THEN Char(s, 1) ELSE "")
             \o KeepMoneyChars(SubSeq(s, 2, Len(s)))

ParseMoneyClaimed(raw) ==
    IF raw = None THEN None
    ELSE LET s == KeepMoneyChars(Val(raw))
             t == IF Contains(s, ",") /\ Contains(s, ".") THEN Replace(s, ",", "")
                  ELSE IF Contains(s, ",") THEN Replace(s, ",", ".")
                  ELSE s
         IN  IF IsExc(PyFloat(t)) THEN None ELSE Some(PyFloat(t))

C5_ParseMoneyDenotes ==
    (call.fn = "_try_parse_money" /\ call.returned) => call.ret = ParseMoneyClaimed(call.arg)

(***************************************************************************)
(* C10.  On the failure path (the input is not empty, the permissive parse *)
(* fails and the strict YYYY-MM-DD parse of the part before the first T    *)
(* fails), parseDate returns its input unmodified; and it returns the      *)
(* empty string only for the empty input.                                  *)
(***************************************************************************)
DateFailurePath(val) ==
    /\ val # ""
    /\ IsExc(DateutilParse(val))
    /\ IsExc(Strptime(BeforeFirst(val, "T")))

C10_ParseDateReturnsInput ==
    (call.fn = "_fmt_mmddyyyy" /\ call.returned) =>
        /\ DateFailurePath(call.arg) => call.ret = call.arg
        /\ call.ret = "" => call.arg = ""

(***************************************************************************)
(* Configuration tables of the script.                                     *)
(***************************************************************************)
COLUMN_STATUS_MAP ==
    [k \in {"PROBLEMS IN POR...", "PROBLEMS IN PRO...", "RECALL", "STAND BY", "UNSCHEDULED",
            "SCHEDULED", "REJECT DP. PROPOSAL", "WITHOUT PROPOS...", "QUALITY CONTROL",
            "PENDING INVOICE", "PENDING PAYMENTS", "DONE", "CANCELED"} |->
        CASE k = "PROBLEMS IN POR..." -> "Problems"
          [] k = "PROBLEMS IN PRO..." -> "Problems"
          [] k = "RECALL" -> "Recall"
          [] k = "STAND BY" -> "Stand By"
          [] k = "UNSCHEDULED" -> "Unscheduled"
          [] k = "SCHEDULED" -> "Scheduled"
          [] k = "REJECT DP. PROPOSAL" -> "Rejected Proposal"
          [] k = "WITHOUT PROPOS..." -> "Without Proposal"
          [] k = "QUALITY CONTROL" -> "Quality Control"
          [] k = "PENDING INVOICE" -> "Pending Invoice"
          [] k = "PENDING PAYMENTS" -> "Pending Payments"
          [] k = "DONE" -> "Done"
          [] k = "CANCELED" -> "Canceled"]

IGNORED_SECTION_TOKENS == {"TRASH", "ARCHIVE"}

FIELD_ALIASES ==
    [client         |-> {"CLIENTE", "CLIENT", "CLIENT NAME", "CLIENTE NOMBRE", "CUSTOMER"},
     zone           |-> {"ZONA", "ZONE"},
     approved_value |-> {"VALOR APROBADO", "VALOR TOTAL", "APPROVED AMOUNT", "AMOUNT APPROVED",
                         "APPROVED VALUE"},
     invoice_date   |-> {"FECHA DE INVOICE", "FECHA FACTURA", "INVOICE ENVIADO", "INVOICE DATE"},
     paid_flag      |-> {"PAGADO", "PAID"},
     paid_date      |-> {"FECHA DE PAGO", "PAID DATE"},
     paid_amount    |-> {"MONTO PAGADO", "PAGADO (MONTO)", "PAID AMOUNT"},
     priority       |-> {"PRIORITY", "PRIORIDAD"},
     status         |-> {"STATUS", "ESTADO", "ESTATUS"},
     canceled_flag  |-> {"CANCELADA", "CANCELED"},
     canceled_date  |-> {"FECHA DE CANCELACION", "FECHA DE CANCELACIÓN", "CANCEL DATE"},
     type           |-> {"TIPO", "TYPE"},
     wo_number      |-> {"WO #", "WO", "WORK ORDER"},
     materials_cost |-> {"GASTO MATERIALES", "MATERIALES", "MATERIAL COST", "COSTO MATERIALES"},
     labor_cost     |-> {"GASTO LABOR", "GATOS LABOR", "GASTO MANO DE OBRA", "LABOR COST",
                         "MANO DE OBRA", "GASTO LABOUR", "GASTOS LABOR"}]

(***************************************************************************)
(* _alias_hit                                                              *)
(***************************************************************************)
_alias_hit(field_name_norm, alias_set) ==
    \/ field_name_norm \in alias_set
    \/ \E a \in alias_set : Contains(field_name_norm, a)

(***************************************************************************)
(* Python's truth of an optional text or number, and its "or".             *)
(***************************************************************************)
TruthyText(o) == o # None /\ Val(o) # ""

\* a or b, on optional texts
Or(a, b) == IF TruthyText(a) THEN a ELSE b

\* a or "", on an optional text: a text
OrEmpty(a) == IF TruthyText(a) THEN Val(a) ELSE ""

\* num if num is not None else _try_parse_money(disp or text)
NumberOf(num, disp, text) == IF num # None THEN num ELSE _try_parse_money(Or(disp, text))

\* x or 0.0, on an optional number: a number
OrZero(x) == IF x # None /\ Val(x).n # 0 THEN Val(x) ELSE Zero

TRUTHY == {"1", "true", "yes", "sí", "si"}

(***************************************************************************)
(* zone_from_project.  "".split()[-1] raises IndexError when the name is   *)
(* blank but not empty.                                                    *)
(***************************************************************************)
IndexError == [exc |-> "IndexError"]

zone_from_project(project_name) ==
    IF project_name = "" THEN [val |-> ""]
    ELSE IF Strip(project_name) = "" THEN IndexError
    ELSE [val |-> StripChars(LastToken(project_name), {","})]

(***************************************************************************)
(* get_fee_pct.  fees_map is a function client -> (type -> fraction).      *)
(***************************************************************************)
\* the fee of the upper-cased client c and type tt
FeeIn(fees, c, tt) ==
    IF c \in DOMAIN fees
    THEN IF tt \in DOMAIN fees[c] THEN fees[c][tt]
         ELSE IF "ANY" \in DOMAIN fees[c] THEN fees[c]["ANY"]
         ELSE Zero
    ELSE Zero

get_fee_pct(fees, client, ttype) == FeeIn(fees, StrUpper(client), StrUpper(ttype))

(***************************************************************************)
(* Regular-expression matching of the two text miners, position by         *)
(* position.  Positions are 1-based; a match "at i" starts at character i. *)
(***************************************************************************)
AlnumChars == Digits \cup {Lower[k] : k \in 1..26} \cup {Upper[k] : k \in 1..26}

\* \w
WordChars == Digits \cup {Lower[k] : k \in DOMAIN Lower} \cup {Upper[k] : k \in DOMAIN Upper} \cup {"_"}

KEYWORDS == <<"PRIORITY", "MEDIUM", "HIGH", "LOW", "STATUS", "ZONE">>

\* the first position >= i of s whose character is not in cs (Len(s) + 1 when none)
RECURSIVE SkipIn(_, _, _)
SkipIn(s, i, cs) == IF i <= Len(s) /\ Char(s, i) \in cs THEN SkipIn(s, i + 1, cs) ELSE i

\* the first position >= i of s whose character is in cs (Len(s) + 1 when none)
RECURSIVE SkipTo(_, _, _)
SkipTo(s, i, cs) == IF i <= Len(s) /\ Char(s, i) \notin cs THEN SkipTo(s, i + 1, cs) ELSE i

\* kw (upper case) is at position i of s, whatever the case
AtCI(s, i, kw) == i >= 1 /\ i + Len(kw) - 1 <= Len(s) /\ StrUpper(SubSeq(s, i, i + Len(kw) - 1)) = kw

\* \b at the gap before position i
Boundary(s, i) == (i > 1 /\ Char(s, i - 1) \in WordChars) # (i <= Len(s) /\ Char(s, i) \in WordChars)

\* the first of two optional matches
FirstSpan(a, b) == IF a # <<>> THEN a ELSE b

\* the keywords that stand at position e of s and end at a word boundary
KeywordHits(s, e) ==
    {k \in DOMAIN KEYWORDS : AtCI(s, e, KEYWORDS[k]) /\ Boundary(s, e + Len(KEYWORDS[k]))}

KeywordEnd(e, hits) == IF hits = {} THEN 0 ELSE e + Len(KEYWORDS[Least(hits)])

KeywordFrom(s, i, e) == IF e > i THEN KeywordEnd(e, KeywordHits(s, e)) ELSE 0

\* \s+(?:PRIORITY|MEDIUM|HIGH|LOW|STATUS|ZONE)\b matches at i: the position after it, or 0
KeywordAfterSpace(s, i) == KeywordFrom(s, i, SkipIn(s, i, WSChars))

(***************************************************************************)
(* parse_client_from_text                                                  *)
(***************************************************************************)
\* [:\-] at position k: k, or 0
SepOf(s, k) == IF k <= Len(s) /\ Char(s, k) \in {":", "-"} THEN k ELSE 0

\* (?:client|cliente)\s*[:\-] at i: the position of the separator, or 0
ClientSepAt(s, i) ==
    IF AtCI(s, i, "CLIENTE") THEN SepOf(s, SkipIn(s, i + 7, WSChars))
    ELSE IF AtCI(s, i, "CLIENT") THEN SepOf(s, SkipIn(s, i + 6, WSChars))
    ELSE 0

\* ([^\r\n]+) from position from: the span <<from, to>>
GroupFrom(s, from) == <<from, SkipTo(s, from, {"\r", "\n"}) - 1>>

\* \s* is greedy and gives characters back until [^\r\n]+ has one to take
GroupIn(s, starts) == IF starts = {} THEN <<>> ELSE GroupFrom(s, Greatest(starts))

GroupStarts(s, a, b) == {j \in a..b : j <= Len(s) /\ Char(s, j) \notin {"\r", "\n"}}

GroupAfter(s, sepAt) ==
    IF sepAt = 0 THEN <<>>
    ELSE GroupIn(s, GroupStarts(s, sepAt + 1, SkipIn(s, sepAt + 1, WSChars)))

\* (?:client|cliente)\s*[:\-]\s*([^\r\n]+) at i: the span of group 1, or <<>>
ClientLabelAt(s, i) == GroupAfter(s, ClientSepAt(s, i))

\* ^\s* at i: the position after it, or 0
LineStartAt(s, i) == IF i = 1 THEN SkipIn(s, 1, WSChars) ELSE 0

\* \r?\n\s* at i: the position after it, or 0
NewlineAt(s, i) ==
    IF i <= Len(s) /\ Char(s, i) = "\n" THEN SkipIn(s, i + 1, WSChars)
    ELSE IF i + 1 <= Len(s) /\ Char(s, i) = "\r" /\ Char(s, i + 1) = "\n" THEN SkipIn(s, i + 2, WSChars)
    ELSE 0

LabelAfter(s, k) == IF k = 0 THEN <<>> ELSE ClientLabelAt(s, k)

\* the first regular expression (line 83) at i: the span of group 1, or <<>>
AnchoredClientAt(s, i) == FirstSpan(LabelAfter(s, LineStartAt(s, i)), LabelAfter(s, NewlineAt(s, i)))

\* re.search of the first regular expression from position i on
RECURSIVE SearchAnchored(_, _)
SearchAnchored(s, i) ==
    IF i > Len(s) THEN <<>> ELSE FirstSpan(AnchoredClientAt(s, i), SearchAnchored(s, i + 1))

\* re.search of the second regular expression (line 85) from position i on
RECURSIVE SearchLabel(_, _)
SearchLabel(s, i) ==
    IF i > Len(s) THEN <<>> ELSE FirstSpan(ClientLabelAt(s, i), SearchLabel(s, i + 1))

\* re.sub(r"\s{2,}", " ", s)
RECURSIVE CollapseSpaces(_)
CollapseSpaces(s) ==
    IF s = "" THEN ""
    ELSE IF Char(s, 1) \in WSChars /\ SkipIn(s, 1, WSChars) > 2
    THEN " " \o CollapseSpaces(SubSeq(s, SkipIn(s, 1, WSChars), Len(s)))
    ELSE Char(s, 1) \o CollapseSpaces(SubSeq(s, 2, Len(s)))

CutAt(s, cuts) == IF cuts = {} THEN s ELSE SubSeq(s, 1, Least(cuts) - 1)

\* re.split(r"\s+(?:PRIORITY|MEDIUM|HIGH|LOW|STATUS|ZONE)\b", s, flags=re.I)[0]
BeforeKeyword(s) == CutAt(s, {i \in 1..Len(s) : KeywordAfterSpace(s, i) # 0})

\* lines 87-91, on group 1 of the match
CleanClient(val) == StripChars(BeforeKeyword(CollapseSpaces(Strip(val))), {" ", "-", ":", ";", "|"})

ClientOfSpan(blob, g) == IF g = <<>> THEN "" ELSE CleanClient(SubSeq(blob, g[1], g[2]))

ClientInBlob(blob) == ClientOfSpan(blob, FirstSpan(SearchAnchored(blob, 1), SearchLabel(blob, 1)))

parse_client_from_text(name, notes) == ClientInBlob(name \o "\n" \o notes)

(***************************************************************************)
(* wo_from_name                                                            *)
(***************************************************************************)
\* (?:\s*[-/]\s*\d+)* from position i: the position after the last repetition
RECURSIVE WoSuffixes(_, _)

\* \d+ from b to c, then the next repetition
WoSuffixDigits(s, i, b, c) == IF c > b THEN WoSuffixes(s, c) ELSE i

\* [-/] at a, then \s*
WoSuffixSep(s, i, a) ==
    IF a <= Len(s) /\ Char(s, a) \in {"-", "/"}
    THEN WoSuffixDigits(s, i, SkipIn(s, a + 1, WSChars), SkipIn(s, SkipIn(s, a + 1, WSChars), Digits))
    ELSE i

WoSuffixes(s, i) == WoSuffixSep(s, i, SkipIn(s, i, WSChars))

\* [A-Za-z0-9]+ from a to b, then the repetitions
WoGroup(s, a, b) == IF b > a THEN <<a, WoSuffixes(s, b) - 1>> ELSE <<>>

\* \s+ from i + 2 to a
WoAfter(s, i, a) == IF a > i + 2 THEN WoGroup(s, a, SkipIn(s, a, AlnumChars)) ELSE <<>>

\* \bWO\s+([A-Za-z0-9]+(?:\s*[-/]\s*\d+)*) at i: the span of group 1, or <<>>
WoAt(s, i) ==
    IF Boundary(s, i) /\ AtCI(s, i, "WO") THEN WoAfter(s, i, SkipIn(s, i + 2, WSChars)) ELSE <<>>

RECURSIVE WoFrom(_, _)
WoFrom(s, i) == IF i > Len(s) THEN <<>> ELSE FirstSpan(WoAt(s, i), WoFrom(s, i + 1))

SpanText(s, g) == IF g = <<>> THEN <<>> ELSE <<SubSeq(s, g[1], g[2])>>

\* RE_WO_ANY.search(s): <<group 1>>, or <<>> when there is no match
WoSearch(s) == SpanText(s, WoFrom(s, 1))

\* $ at the gap before position i
AtEnd(s, i) == i = Len(s) + 1 \/ (i = Len(s) /\ Char(s, i) = "\n")

\* the positions where .*? may stop: the lookahead holds and no newline was crossed
WoRunStops(s, i) ==
    {j \in (i + 2)..(Len(s) + 1) :
        /\ KeywordAfterSpace(s, j) # 0 \/ AtEnd(s, j)
        /\ \A k \in (i + 2)..(j - 1) : Char(s, k) # "\n"}

WoRunEnd(stops) == IF stops = {} THEN 0 ELSE Least(stops)

\* \bWO\b.*?(?=\s+(?:PRIORITY|MEDIUM|HIGH|LOW|STATUS|ZONE)\b|$) at i: the position
\* after the match, or 0
WoRunAt(s, i) ==
    IF Boundary(s, i) /\ AtCI(s, i, "WO") /\ Boundary(s, i + 2) THEN WoRunEnd(WoRunStops(s, i)) ELSE 0

RunText(s, i, e, rest) == IF e # 0 THEN <<SubSeq(s, i, e - 1)>> ELSE rest

\* re.search of the fallback expression (line 102): <<m2.group(0)>>, or <<>>
RECURSIVE WoRunFrom(_, _)
WoRunFrom(s, i) == IF i > Len(s) THEN <<>> ELSE RunText(s, i, WoRunAt(s, i), WoRunFrom(s, i + 1))

\* f"WO {m.group(1).strip()}"
WoText(m) == "WO " \o Strip(m[1])

WoOfRun(run, m3) == IF m3 # <<>> THEN WoText(m3) ELSE Strip(run)

WoFallback(m2) == IF m2 = <<>> THEN "" ELSE WoOfRun(m2[1], WoSearch(m2[1]))

WoOr(m, text) == IF m # <<>> THEN WoText(m) ELSE WoFallback(WoRunFrom(text, 1))

wo_from_name(text) == IF text = "" THEN "" ELSE WoOr(WoSearch(text), text)

(***************************************************************************)
(* extract_fields.  A custom field is [name, display_value, enum_name,     *)
(* number_value, text_value], the last four optional (enum_name is         *)
(* (cf.get("enum_value") or {}).get("name")).                              *)
(***************************************************************************)
ExtractDefaults ==
    [client |-> "", zone |-> "", approved_value |-> None,
     invoice_date |-> "", paid_flag |-> FALSE, paid_date |-> "", paid_amount |-> None,
     priority |-> "", status |-> "", canceled_flag |-> FALSE, canceled_date |-> "",
     type |-> "", wo_number |-> "", materials_cost |-> Zero, labor_cost |-> Zero]

\* the mutation of FlagOf: the field's own literal is not accepted
FlagOfTruthyOnly(val, literal) == val \in TRUTHY

\* val in {"1","true","yes","sí","si"} or val == literal
FlagOf(val, literal) == val \in TRUTHY \/ val = literal

\* the if/elif chain of the loop body, on the five values read from the field
ExtractAs(out, n, disp, enumn, num, text) ==
    IF _alias_hit(n, FIELD_ALIASES.client)
    THEN [out EXCEPT !.client = OrEmpty(Or(disp, text))]
    ELSE IF _alias_hit(n, FIELD_ALIASES.zone)
    THEN [out EXCEPT !.zone = OrEmpty(Or(Or(disp, text), enumn))]
    ELSE IF _alias_hit(n, FIELD_ALIASES.approved_value)
    THEN [out EXCEPT !.approved_value = NumberOf(num, disp, text)]
    ELSE IF _alias_hit(n, FIELD_ALIASES.invoice_date)
    THEN [out EXCEPT !.invoice_date = Strip(OrEmpty(Or(disp, text)))]
    ELSE IF _alias_hit(n, FIELD_ALIASES.paid_flag)
    THEN [out EXCEPT !.paid_flag = FlagOf(StrLower(Strip(OrEmpty(Or(Or(disp, text), enumn)))), "paid")]
    ELSE IF _alias_hit(n, FIELD_ALIASES.paid_date)
    THEN [out EXCEPT !.paid_date = Strip(OrEmpty(Or(disp, text)))]
    ELSE IF _alias_hit(n, FIELD_ALIASES.paid_amount)
    THEN [out EXCEPT !.paid_amount = NumberOf(num, disp, text)]
    ELSE IF _alias_hit(n, FIELD_ALIASES.priority)
    THEN [out EXCEPT !.priority = OrEmpty(Or(Or(enumn, disp), text))]
    ELSE IF _alias_hit(n, FIELD_ALIASES.status)
    THEN [out EXCEPT !.status = OrEmpty(Or(Or(enumn, disp), text))]
    ELSE IF _alias_hit(n, FIELD_ALIASES.canceled_flag)
    THEN [out EXCEPT !.canceled_flag = FlagOf(StrLower(Strip(OrEmpty(Or(Or(disp, text), enumn)))), "canceled")]
    ELSE IF _alias_hit(n, FIELD_ALIASES.canceled_date)
    THEN [out EXCEPT !.canceled_date = Strip(OrEmpty(Or(disp, text)))]
    ELSE IF _alias_hit(n, FIELD_ALIASES.type)
    THEN [out EXCEPT !.type = Strip(OrEmpty(Or(Or(enumn, disp), text)))]
    ELSE IF _alias_hit(n, FIELD_ALIASES.wo_number)
    THEN [out EXCEPT !.wo_number = Strip(OrEmpty(Or(disp, text)))]
    ELSE IF _alias_hit(n, FIELD_ALIASES.materials_cost)
    THEN [out EXCEPT !.materials_cost = OrZero(NumberOf(num, disp, text))]
    ELSE IF _alias_hit(n, FIELD_ALIASES.labor_cost)
    THEN [out EXCEPT !.labor_cost = OrZero(NumberOf(num, disp, text))]
    ELSE out

\* one pass of the loop body over the custom field cf
ExtractOne(out, cf) ==
    ExtractAs(out, normalize_upper(cf.name), cf.display_value, cf.enum_name, cf.number_value, cf.text_value)

RECURSIVE ExtractLoop(_, _)
ExtractLoop(out, cfs) ==
    IF cfs = <<>> THEN out ELSE ExtractLoop(ExtractOne(out, Head(cfs)), Tail(cfs))

\* if not out["wo_number"]: out["wo_number"] = wo_from_name(task.get("name") or "")
WithWoFallback(out, name) ==
    IF out.wo_number = "" THEN [out EXCEPT !.wo_number = wo_from_name(name)] ELSE out

extract_fields(task) == WithWoFallback(ExtractLoop(ExtractDefaults, task.custom_fields), task.name)

(***************************************************************************)
(* build_dataframe, the part before the loop: the cutoff date (None when   *)
(* no cutoff is given or its text does not parse).                         *)
(***************************************************************************)
DateOrNone(d) == IF IsExc(d) THEN None ELSE Some(d)

CutoffDate(cutoff_text) == IF cutoff_text = "" THEN None ELSE DateOrNone(DateutilParse(cutoff_text))

(***************************************************************************)
(* build_dataframe, the body of the task loop.  A project is [gid, name];  *)
(* a task is [gid, name, notes, permalink_url, created_at, modified_at,    *)
(* memberships, custom_fields], the two timestamps optional texts; a       *)
(* membership is [project, section], the gid of its project and the name   *)
(* of its section, both optional.                                          *)
(***************************************************************************)
\* "WO" if "(WO)" in pname.upper() else ("PO" if "(PO)" in pname.upper() else "")
TypeHint(pname) ==
    IF Contains(StrUpper(pname), "(WO)") THEN "WO"
    ELSE IF Contains(StrUpper(pname), "(PO)") THEN "PO"
    ELSE ""

\* the section of the first of the memberships ms whose index is in hits
FirstSection(ms, hits) == IF hits = {} THEN "" ELSE Strip(OrEmpty(ms[Least(hits)].section))

\* the section of the first membership of task t in the project pgid
SectionOf(t, pgid) ==
    FirstSection(t.memberships, {k \in DOMAIN t.memberships : t.memberships[k].project = Some(pgid)})

\* the first continue of the loop body
InIgnoredSection(section) ==
    \E tok \in IGNORED_SECTION_TOKENS : Contains(normalize_upper(section), tok)

\* "DONE" in sec_norm or "CANCEL" in sec_norm
DoneLike(sec_norm) == Contains(sec_norm, "DONE") \/ Contains(sec_norm, "CANCEL")

\* the mutation of EarlierThan: on or before the cutoff
EarlierOrSame(d, cutoff_date) == ~IsExc(d) /\ ~DateLess(cutoff_date, d)

\* _d and _d < cutoff_date, where d is the parsed date or the exception caught
EarlierThan(d, cutoff_date) == ~IsExc(d) /\ DateLess(d, cutoff_date)

\* the second continue of the loop body
BeforeCutoff(t, section, cutoff_date) ==
    /\ cutoff_date # None
    /\ DoneLike(normalize_upper(section))
    /\ EarlierThan(DateutilParse(OrEmpty(Or(t.modified_at, t.created_at))), Val(cutoff_date))

SkippedIn(t, section, cutoff_date) ==
    InIgnoredSection(section) \/ BeforeCutoff(t, section, cutoff_date)

Skipped(p, t, cutoff_date) == SkippedIn(t, SectionOf(t, p.gid), cutoff_date)

\* the mutation of ProfitPct: the division without its guard
ProfitPctUnguarded(profit, approved_real) == PyDiv(profit, approved_real)

\* profit_pct = (profit / approved_real) if approved_real else 0.0
ProfitPct(profit, approved_real) ==
    IF approved_real.n # 0 THEN PyDiv(profit, approved_real) ELSE Zero

\* the fee fraction the body looks up for a task
FeeOf(fees, cf, ttype) == get_fee_pct(fees, cf.client, ttype)

\* materials = float(cf.get("materials_cost") or 0.0), and labor likewise
CostOf(cost) == IF cost.n # 0 THEN cost ELSE Zero

\* invoice_month of a parsed date, or of the exception caught
MonthOrEmpty(dt) == IF IsExc(dt) THEN "" ELSE StrfYM(dt)

InvoiceMonth(invoice_date) ==
    IF invoice_date = "" THEN "" ELSE MonthOrEmpty(DateutilParse(invoice_date))

\* if not cf["zone"]: cf["zone"] = project_zone
WithZone(cf, project_zone) == IF cf.zone = "" THEN [cf EXCEPT !.zone = project_zone] ELSE cf

\* if parsed_client: cf["client"] = parsed_client
SetClient(cf, parsed_client) == IF parsed_client # "" THEN [cf EXCEPT !.client = parsed_client] ELSE cf

\* if not cf.get("client"): parsed_client = parse_client_from_text(...)
WithClient(cf, t) == IF cf.client = "" THEN SetClient(cf, parse_client_from_text(t.name, t.notes)) ELSE cf

\* cf after the two fallbacks (zone from the project, client from the text)
WithFallbacks(cf0, t, project_zone) == WithClient(WithZone(cf0, project_zone), t)

\* lines 283-290: the seven amounts of a record
Financials(cf, fee_pct) ==
    LET approved      == OrZero(cf.approved_value)
        approved_real == QMul(approved, QSub(One, fee_pct))
        materials     == CostOf(cf.materials_cost)
        labor         == CostOf(cf.labor_cost)
        gastos_total  == QAdd(materials, labor)
        profit        == QSub(approved_real, gastos_total)
    IN  [approved |-> approved, approved_real |-> approved_real, materials |-> materials,
         labor |-> labor, gastos_total |-> gastos_total, profit |-> profit,
         profit_pct |-> ProfitPct(profit, approved_real)]

\* COLUMN_STATUS_MAP.get(normalize_upper(section), section)
LogicalStatus(sec_norm, section) ==
    IF sec_norm \in DOMAIN COLUMN_STATUS_MAP THEN COLUMN_STATUS_MAP[sec_norm] ELSE section

\* The record appended for task t of project p, or the exception raised on the
\* way.  Field names: Order = "# de orden", Status_CF = "Status (CF)",
\* Approved_Real = "Valor Aprobado (Real)", Gastos_Total = "Gastos Total",
\* Utilidad = "Utilidad ($)", Utilidad_Pct = "Utilidad (%)", Paid = "Paid?".
RowOf(p, t, section, ttype, cf, fin) ==
    IF IsExc(fin.profit_pct) THEN fin.profit_pct
    ELSE [Project        |-> p.name,
          Zone           |-> cf.zone,
          Type           |-> IF cf.type # "" THEN cf.type ELSE ttype,
          Task_GID       |-> t.gid,
          Task_URL       |-> t.permalink_url,
          Order          |-> Strip(cf.wo_number),
          Task_Name      |-> t.name,
          Column         |-> section,
          Logical_Status |-> LogicalStatus(normalize_upper(section), section),
          Client         |-> cf.client,
          Priority       |-> cf.priority,
          Status_CF      |-> cf.status,
          Approved_Value |-> fin.approved,
          Approved_Real  |-> fin.approved_real,
          Gasto_Materiales |-> fin.materials,
          Gasto_Labor    |-> fin.labor,
          Gastos_Total   |-> fin.gastos_total,
          Utilidad       |-> fin.profit,
          Utilidad_Pct   |-> fin.profit_pct,
          Invoice_Date   |-> _fmt_mmddyyyy(cf.invoice_date),
          Invoice_Month  |-> InvoiceMonth(cf.invoice_date),
          Paid           |-> (cf.paid_flag \/ cf.paid_date # ""),
          Paid_Date      |-> _fmt_mmddyyyy(cf.paid_date),
          Paid_Amount    |-> cf.paid_amount,
          Created_At     |-> OrEmpty(t.created_at),
          Modified_At    |-> OrEmpty(t.modified_at)]

RowWith(p, t, section, ttype, cf, fees) ==
    RowOf(p, t, section, ttype, cf, Financials(cf, FeeOf(fees, cf, ttype)))

MakeRow(p, t, project_zone, fees) ==
    RowWith(p, t, SectionOf(t, p.gid), TypeHint(p.name),
            WithFallbacks(extract_fields(t), t, project_zone), fees)

(***************************************************************************)
(* build_dataframe as a state machine: one step per project fetched and    *)
(* per task processed.                                                     *)
(***************************************************************************)
ApiException == [exc |-> "ApiException"]

CurrentProject == projects[pidx]

CurrentZone == zone_from_project(CurrentProject.name).val

\* the mutation of Emit: the record goes to the front
EmitFirst(rs, row) == <<row>> \o rs

\* rows.append({...})
Emit(rs, row) == Append(rs, row)

\* the step into project p, whose zone and task list are given: either may be
\* the exception raised instead
EnterProject(zone, fetched) ==
    IF IsExc(zone) \/ IsExc(fetched)
    THEN /\ pc' = "raised"
         /\ UNCHANGED <<pidx, tasks, tidx>>
    ELSE /\ pidx' = pidx + 1
         /\ tasks' = fetched.tasks
         /\ tidx' = 0
         /\ pc' = pc

\* for p in projects: pgid, pname, project_zone, ttype, tasks = fetch_project_tasks(...)
StartProject ==
    /\ pc = "run"
    /\ tidx = Len(tasks)
    /\ pidx < Len(projects)
    /\ EnterProject(zone_from_project(projects[pidx + 1].name), source[projects[pidx + 1].gid])
    /\ UNCHANGED <<projects, source, done_cutoff, fees_map, rows, call>>

\* for t in tasks: ... continue
SkipTask ==
    /\ pc = "run"
    /\ tidx < Len(tasks)
    /\ Skipped(CurrentProject, tasks[tidx + 1], CutoffDate(done_cutoff))
    /\ tidx' = tidx + 1
    /\ UNCHANGED <<projects, source, done_cutoff, fees_map, pidx, tasks, rows, pc, call>>

\* the end of the loop body, for the record built or the exception raised
AppendOrRaise(row) ==
    IF IsExc(row)
    THEN /\ pc' = "raised"
         /\ UNCHANGED <<rows, tidx>>
    ELSE /\ rows' = Emit(rows, row)
         /\ tidx' = tidx + 1
         /\ pc' = pc

\* for t in tasks: ... rows.append({...})
AppendRow ==
    /\ pc = "run"
    /\ tidx < Len(tasks)
    /\ ~Skipped(CurrentProject, tasks[tidx + 1], CutoffDate(done_cutoff))
    /\ AppendOrRaise(MakeRow(CurrentProject, tasks[tidx + 1], CurrentZone, fees_map))
    /\ UNCHANGED <<projects, source, done_cutoff, fees_map, pidx, tasks, call>>

\* the loops are over: df = pd.DataFrame(rows); return df
Finish ==
    /\ pc = "run"
    /\ tidx = Len(tasks)
    /\ pidx = Len(projects)
    /\ pc' = "done"
    /\ UNCHANGED <<projects, source, done_cutoff, fees_map, pidx, tasks, tidx, rows, call>>

Next == StartProject \/ SkipTask \/ AppendRow \/ Finish

NoCall == [fn |-> "", arg |-> "", returned |-> FALSE, ret |-> ""]

\* the state on entry to the loop, for given arguments and task source
RunFrom(ps, src, cutoff, fees) ==
    /\ projects = ps
    /\ source = src
    /\ done_cutoff = cutoff
    /\ fees_map = fees
    /\ pidx = 0
    /\ tasks = <<>>
    /\ tidx = 0
    /\ rows = <<>>
    /\ pc = "run"
    /\ call = NoCall

(***************************************************************************)
(* Inputs.                                                                 *)
(***************************************************************************)
CF(name, disp, enumn, num, text) ==
    [name |-> name, display_value |-> disp, enum_name |-> enumn,
     number_value |-> num, text_value |-> text]

NumberField(name, i) == CF(name, Some(ToString(i)), None, Some(Num(i)), None)

TextField(name, text) == CF(name, Some(text), None, None, Some(text))

EnumField(name, option) == CF(name, Some(option), Some(option), None, None)

Member(gid, section) == [project |-> gid, section |-> section]

Task(gid, name, notes, memberships, cfs, modified, created) ==
    [gid |-> gid, name |-> name, notes |-> notes,
     permalink_url |-> "https://app.asana.com/0/0/" \o gid,
     created_at |-> created, modified_at |-> modified,
     memberships |-> memberships, custom_fields |-> cfs]

ProjectNorth == [gid |-> "1", name |-> "Zone North (WO)"]

ProjectSouth == [gid |-> "2", name |-> "(po) Zone South,"]

ProjectPlain == [gid |-> "3", name |-> "Interior"]

FeesWO == ("ACME" :> ("WO" :> Q(1, 10)))

FeesAcme == ("ACME" :> ("WO" :> Q(1, 10) @@ "PO" :> Q(1, 5)))

FeesAny == ("ACME" :> ("ANY" :> One) @@ "BETA" :> ("PO" :> Q(1, 2) @@ "ANY" :> Q(1, 4)))

NoFees == <<>>

\* all sequences over the set xs of length 0..n
RECURSIVE ListsUpTo(_, _)
ListsUpTo(xs, n) ==
    IF n = 0 THEN {<<>>}
    ELSE LET shorter == ListsUpTo(xs, n - 1)
         IN  shorter \cup {Append(l, x) : l \in shorter, x \in xs}

(***************************************************************************)
(* The tasks of the runs.  A task of the financial family has a section    *)
(* in each of the three projects and one optional custom field per slot.   *)
(***************************************************************************)
Scheduled == <<Member(Some("1"), Some("SCHEDULED")), Member(Some("2"), Some("Stand by")),
               Member(Some("3"), Some("Pending Invoice"))>>

FinTask(client, type, approved, materials, labor, paid_amount) ==
    Task("t1", "Repair roof", "", Scheduled,
         client \o type \o approved \o materials \o labor \o paid_amount,
         Some("2024-06-01T12:00:00.000Z"), Some("2024-05-01T09:30:00.000Z"))

ClientSlot == {<<>>, <<TextField("CLIENTE", "Acme")>>}

TypeSlot == {<<>>, <<EnumField("Tipo", "PO")>>}

ApprovedSlot == {<<>>, <<NumberField("VALOR APROBADO", 1000)>>, <<NumberField("VALOR APROBADO", 0)>>,
                 <<TextField("Approved Amount", "abc")>>}

MaterialsSlot == {<<>>, <<NumberField("GASTO MATERIALES", 200)>>, <<NumberField("GASTO MATERIALES", -200)>>}

LaborSlot == {<<>>, <<NumberField("GASTO LABOR", 100)>>, <<TextField("Labor cost", "12a")>>}

PaidAmountSlot == {<<>>, <<NumberField("Paid amount", 500)>>}

FinTasks ==
    {FinTask(c, ty, a, m, l, pa) :
        c \in ClientSlot, ty \in TypeSlot, a \in ApprovedSlot,
        m \in MaterialsSlot, l \in LaborSlot, pa \in PaidAmountSlot}

\* the task of the end-to-end example
TaskAcme ==
    FinTask(<<TextField("CLIENTE", "Acme")>>, <<>>, <<NumberField("VALOR APROBADO", 1000)>>,
            <<NumberField("GASTO MATERIALES", 200)>>, <<NumberField("GASTO LABOR", 100)>>, <<>>)

\* a task without custom fields
TaskBare == FinTask(<<>>, <<>>, <<>>, <<>>, <<>>, <<>>)

(***************************************************************************)
(* A task of the filter family has memberships of one of four shapes       *)
(* around a section of project "1", and two optional timestamps.           *)
(***************************************************************************)
SectionNames ==
    {None, Some("SCHEDULED"), Some(" archive 2023 "), Some("Trash"), Some("Árchive"),
     Some("Done"), Some("done (old)"), Some("Canceled"), Some("Cancelled")}

MembershipShapes ==
    {<<>>, <<Member(Some("2"), Some("Done"))>>} \cup
    {<<Member(Some("1"), s)>> : s \in SectionNames} \cup
    {<<Member(None, Some("Trash")), Member(Some("2"), Some("Archive")), Member(Some("1"), s),
       Member(Some("1"), Some("Trash"))>> : s \in SectionNames}

ModifiedStamps ==
    {None, Some(""), Some("2023-12-31T23:59:59.000Z"), Some("2024-01-01T00:00:00.000Z"),
     Some("2024-01-02T08:00:00.000Z"), Some("TBD")}

CreatedStamps == {None, Some("2023-06-01T10:00:00.000Z"), Some("2024-03-01T10:00:00.000Z")}

FilterTasks ==
    {Task("t5", "Paint fence WO 77", "", ms, <<NumberField("VALOR APROBADO", 50)>>, modified, created) :
        ms \in MembershipShapes, modified \in ModifiedStamps, created \in CreatedStamps}

Cutoffs == {"", "2024-01-01", "01/01/2024", "TBD"}

(***************************************************************************)
(* A task of the paid family has up to MaxPaidFields custom fields about   *)
(* payment, in any order and with repetition.                              *)
(***************************************************************************)
PaidFields ==
    {TextField("Pagado", "Sí"), TextField("Paid", " YES "), TextField("Paid", "no"),
     EnumField("Paid", "Paid"), NumberField("Paid", 1), CF("Paid", None, None, None, None),
     TextField("Fecha de pago", "2024-03-15"), TextField("Fecha de pago", " "),
     TextField("Paid Date", "2024-03-15")}

PaidTasks ==
    {Task("t7", "Replace window", "", Scheduled, cfs,
          Some("2024-06-01T12:00:00.000Z"), Some("2024-05-01T09:30:00.000Z")) :
        cfs \in ListsUpTo(PaidFields, MaxPaidFields)}

(***************************************************************************)
(* SpecTask: runs over one project with one task.  The task is of the      *)
(* financial family, under each of three projects and four fee tables and  *)
(* without cutoff, or of the filter family, in project "1" under each      *)
(* cutoff, or of the paid family, in project "1" without cutoff.  The task *)
(* source may fail, and so may the zone of a project whose name is blank.  *)
(***************************************************************************)
InitTask ==
    \/ \E p \in {ProjectNorth, ProjectSouth, ProjectPlain}, t \in FinTasks,
          fees \in {NoFees, FeesWO, FeesAcme, FeesAny} :
            RunFrom(<<p>>, p.gid :> [tasks |-> <<t>>], "", fees)
    \/ \E t \in FilterTasks, cutoff \in Cutoffs :
            RunFrom(<<ProjectNorth>>, "1" :> [tasks |-> <<t>>], cutoff, FeesWO)
    \/ \E t \in PaidTasks :
            RunFrom(<<ProjectNorth>>, "1" :> [tasks |-> <<t>>], "", FeesWO)
    \/ RunFrom(<<ProjectNorth>>, "1" :> ApiException, "", FeesWO)
    \/ RunFrom(<<[gid |-> "4", name |-> " "]>>, "4" :> [tasks |-> <<TaskBare>>], "", FeesWO)

SpecTask == InitTask /\ [][Next]_vars

(***************************************************************************)
(* Spec: runs over up to MaxProjects projects of up to MaxTasks tasks      *)
(* each, drawn from three tasks: a well-formed one, one whose values do    *)
(* not parse, and one done before the cutoff.  The task source may fail on *)
(* a project.                                                              *)
(***************************************************************************)
TaskMalformed ==
    Task("t3", "WO-55 fix door", "Cliente - Beta  Corp STATUS open",
         <<Member(None, Some("x")), Member(Some("1"), Some("Done")), Member(Some("2"), None)>>,
         <<TextField("Approved Amount", "abc"), TextField("Invoice Date", "xTBD"),
           TextField("Paid", "maybe"), TextField("Paid amount", "n/a"),
           TextField("Labor cost", "12a"), CF("Tipo", None, None, None, None)>>,
         Some("TBD"), Some("2023-01-01T00:00:00.000Z"))

TaskOldDone ==
    Task("t4", "Replace lock", "",
         <<Member(Some("1"), Some("DONE")), Member(Some("2"), Some("Canceled"))>>,
         <<EnumField("Priority", "High"), NumberField("Valor total", 300)>>,
         None, Some("2023-12-31T23:59:59.000Z"))

TaskPool == {TaskAcme, TaskMalformed, TaskOldDone}

Fetches == {[tasks |-> l] : l \in ListsUpTo(TaskPool, MaxTasks)} \cup {ApiException}

Init ==
    \E ps \in ListsUpTo({ProjectNorth, ProjectSouth}, MaxProjects) :
        \E src \in [{ps[k].gid : k \in DOMAIN ps} -> Fetches] :
            RunFrom(ps, src, "2024-01-01", FeesWO)

Spec == Init /\ [][Next]_vars

(***************************************************************************)
(* C1.  End to end: the run on the single project {gid "1", name "Zone     *)
(* North (WO)"} with the one task TaskAcme (section SCHEDULED, CLIENTE     *)
(* Acme, VALOR APROBADO 1000, GASTO MATERIALES 200, GASTO LABOR 100), fee  *)
(* table {"ACME": {"WO": 0.1}} and no cutoff emits exactly one record,     *)
(* with zone North, type WO, client Acme, approved value 1000, net         *)
(* approved value 900, profit 600 and logical status Scheduled.            *)
(***************************************************************************)
EndToEndRun ==
    /\ projects = <<ProjectNorth>>
    /\ source["1"] = [tasks |-> <<TaskAcme>>]
    /\ fees_map = FeesWO
    /\ done_cutoff = ""

C1_EndToEnd ==
    (EndToEndRun /\ pc = "done") =>
        /\ Len(rows) = 1
        /\ rows[1].Zone = "North"
        /\ rows[1].Type = "WO"
        /\ rows[1].Client = "Acme"
        /\ rows[1].Approved_Value = Num(1000)
        /\ rows[1].Approved_Real = Num(900)
        /\ rows[1].Utilidad = Num(600)
        /\ rows[1].Logical_Status = "Scheduled"

(***************************************************************************)
(* C2.  Every emitted record has net approved value = approved value x     *)
(* (1 - f), where f is the fee of the fee table for the client and the     *)
(* type that the record itself carries; total cost = materials cost +      *)
(* labor cost; profit = net approved value - total cost.                   *)
(***************************************************************************)
C2_NetByRecordType ==
    \A i \in DOMAIN rows :
        /\ rows[i].Approved_Real =
               QMul(rows[i].Approved_Value, QSub(One, get_fee_pct(fees_map, rows[i].Client, rows[i].Type)))
        /\ rows[i].Gastos_Total = QAdd(rows[i].Gasto_Materiales, rows[i].Gasto_Labor)
        /\ rows[i].Utilidad = QSub(rows[i].Approved_Real, rows[i].Gastos_Total)

(***************************************************************************)
(* C3.  Task inclusion, on runs over one project: the records emitted are  *)
(* those of the tasks processed so far that are not excluded, in order,    *)
(* where a task is excluded exactly when (1) its normalized section for    *)
(* the project (empty when no membership matches) contains TRASH or        *)
(* ARCHIVE, or (2) a cutoff date is configured, the normalized section     *)
(* contains DONE or CANCEL, and the date of its modification timestamp     *)
(* (of its creation timestamp when there is no modification timestamp)     *)
(* parses and is strictly earlier than the cutoff.                         *)
(***************************************************************************)
\* the normalized section of task t for project p, as the claim words it
ClaimSection(p, t) ==
    LET mine == {k \in DOMAIN t.memberships : t.memberships[k].project = <<p.gid>>}
        first == CHOOSE k \in mine : \A j \in mine : k <= j
    IN  IF mine = {} \/ t.memberships[first].section = <<>> THEN ""
        ELSE normalize_upper(t.memberships[first].section[1])

\* the timestamp the claim dates the task by
ClaimStamp(t) ==
    IF t.modified_at # <<>> /\ t.modified_at[1] # "" THEN t.modified_at[1]
    ELSE IF t.created_at # <<>> THEN t.created_at[1]
    ELSE ""

\* a date as a number that orders dates
DayNumber(d) == d.y * 10000 + d.m * 100 + d.d

ClaimExcluded(p, t, cutoff_text) ==
    \/ Contains(ClaimSection(p, t), "TRASH")
    \/ Contains(ClaimSection(p, t), "ARCHIVE")
    \/ /\ cutoff_text # ""
       /\ ~IsExc(DateutilParse(cutoff_text))
       /\ Contains(ClaimSection(p, t), "DONE") \/ Contains(ClaimSection(p, t), "CANCEL")
       /\ ~IsExc(DateutilParse(ClaimStamp(t)))
       /\ DayNumber(DateutilParse(ClaimStamp(t))) < DayNumber(DateutilParse(cutoff_text))

\* the ids of the tasks among the first n of ts that the claim includes
RECURSIVE ClaimIncluded(_, _, _, _)
ClaimIncluded(p, ts, n, cutoff_text) ==
    IF n = 0 THEN <<>>
    ELSE ClaimIncluded(p, ts, n - 1, cutoff_text) \o
         (IF ClaimExcluded(p, ts[n], cutoff_text) THEN <<>> ELSE <<ts[n].gid>>)

C3_Inclusion ==
    (Len(projects) = 1 /\ pidx = 1) =>
        [i \in DOMAIN rows |-> rows[i].Task_GID] = ClaimIncluded(projects[1], tasks, tidx, done_cutoff)

\* reached: with a cutoff configured, a task in a done-like section dated on
\* the day of the cutoff was included
C3_Witness ==
    /\ pc = "done"
    /\ Len(projects) = 1 /\ Len(tasks) = 1 /\ Len(rows) = 1
    /\ done_cutoff = "2024-01-01"
    /\ Contains(ClaimSection(projects[1], tasks[1]), "DONE")
    /\ tasks[1].modified_at = Some("2024-01-01T00:00:00.000Z")

(***************************************************************************)
(* C4.  Output order: at every step the output holds exactly one record    *)
(* for each (project, task) pair processed so far that passes the          *)
(* inclusion filter and none for a filtered pair, by position in the       *)
(* project list and then in the project's task list, so it only grows by   *)
(* appending and is at every step a prefix of the final output; when the   *)
(* run is done, every pair has been processed.                             *)
(***************************************************************************)
\* the (project name, task id) pairs of the first n tasks of the list ts of
\* project p that pass the filter
RECURSIVE PairsOfTasks(_, _, _)
PairsOfTasks(p, ts, n) ==
    IF n = 0 THEN <<>>
    ELSE PairsOfTasks(p, ts, n - 1) \o
         (IF Skipped(p, ts[n], CutoffDate(done_cutoff)) THEN <<>> ELSE << <<p.name, ts[n].gid>> >>)

\* those of the first k projects
RECURSIVE PairsOfProjects(_)
PairsOfProjects(k) ==
    IF k = 0 THEN <<>>
    ELSE PairsOfProjects(k - 1) \o
         PairsOfTasks(projects[k], source[projects[k].gid].tasks, Len(source[projects[k].gid].tasks))

PairsOfRows == [i \in DOMAIN rows |-> <<rows[i].Project, rows[i].Task_GID>>]

C4_OutputOrder ==
    /\ pidx = 0 => rows = <<>>
    /\ pidx > 0 =>
        /\ tasks = source[projects[pidx].gid].tasks
        /\ PairsOfRows = PairsOfProjects(pidx - 1) \o PairsOfTasks(projects[pidx], tasks, tidx)
    /\ pc = "done" => PairsOfRows = PairsOfProjects(Len(projects))

\* reached: a finished run of two projects in which a task was filtered and
\* records of both projects were emitted
C4_Witness ==
    /\ pc = "done"
    /\ Len(projects) = 2
    /\ Len(rows) >= 2
    /\ rows[1].Project # rows[Len(rows)].Project
    /\ \E k \in DOMAIN projects :
           Len(source[projects[k].gid].tasks) > Len(SelectSeq(rows, LAMBDA r : r.Project = projects[k].name))

(***************************************************************************)
(* C6.  Divide-by-zero guard: in every emitted record the profit ratio     *)
(* times the net approved value is the profit when the net approved value  *)
(* is not 0, and the profit ratio is 0 when it is 0; computing it never    *)
(* raises and never stops the run: a run stops only where the task source  *)
(* or the project's zone fails, and a task that passes the filter always   *)
(* yields its record.                                                      *)
(***************************************************************************)
\* the step into the next project fails
SourceFails ==
    /\ pidx < Len(projects)
    /\ \/ IsExc(source[projects[pidx + 1].gid])
       \/ IsExc(zone_from_project(projects[pidx + 1].name))

C6_RatioGuard ==
    /\ \A i \in DOMAIN rows :
           IF rows[i].Approved_Real.n # 0
           THEN QMul(rows[i].Utilidad_Pct, rows[i].Approved_Real) = rows[i].Utilidad
           ELSE rows[i].Utilidad_Pct = Zero
    /\ pc = "raised" => SourceFails /\ tidx = Len(tasks)

\* reached: a finished run whose record has an approved value of 1000 and a
\* fee of 1 that leaves a net approved value of 0
C6_Witness ==
    /\ pc = "done"
    /\ Len(rows) = 1
    /\ rows[1].Approved_Value = Num(1000)
    /\ rows[1].Approved_Real = Zero
    /\ rows[1].Utilidad_Pct = Zero

(***************************************************************************)
(* C7.  Per-task anomalies never abort the run: when the task source       *)
(* returns a task list for every project, the run does not raise, a        *)
(* finished run has processed every task of every project, and the record  *)
(* of the malformed task t3 (money, date and boolean texts that do not     *)
(* parse, a field without any representation, an unparsable timestamp)     *)
(* carries the neutral value in place of each: approved value 0, labor     *)
(* cost 0, no paid amount, invoice date and invoice month empty, paid      *)
(* false, type the project's hint.                                         *)
(***************************************************************************)
SourceOK == \A k \in DOMAIN projects : ~IsExc(source[projects[k].gid])

C7_AnomaliesAbsorbed ==
    SourceOK =>
        /\ pc # "raised"
        /\ pc = "done" => pidx = Len(projects) /\ tidx = Len(tasks)
        /\ \A i \in DOMAIN rows :
               rows[i].Task_GID = "t3" =>
                   /\ rows[i].Approved_Value = Zero
                   /\ rows[i].Gasto_Labor = Zero
                   /\ rows[i].Paid_Amount = None
                   /\ rows[i].Paid = FALSE
                   /\ rows[i].Invoice_Date = ""
                   /\ rows[i].Invoice_Month = ""

(***************************************************************************)
(* C8.  Missing-field defaults: the record of an included task without     *)
(* custom fields has 0 in every numeric field (approved value, net         *)
(* approved value, materials cost, labor cost, total cost, profit, profit  *)
(* ratio and paid amount), the empty string in priority, custom status,    *)
(* invoice date, invoice month and paid date, and a false paid flag; none  *)
(* of them is null.                                                        *)
(***************************************************************************)
C8_MissingFieldDefaults ==
    \A i \in DOMAIN rows :
        (Len(tasks) = 1 /\ tasks[1].custom_fields = <<>>) =>
            /\ rows[i].Approved_Value = Zero
            /\ rows[i].Approved_Real = Zero
            /\ rows[i].Gasto_Materiales = Zero
            /\ rows[i].Gasto_Labor = Zero
            /\ rows[i].Gastos_Total = Zero
            /\ rows[i].Utilidad = Zero
            /\ rows[i].Utilidad_Pct = Zero
            /\ rows[i].Priority = ""
            /\ rows[i].Status_CF = ""
            /\ rows[i].Invoice_Date = ""
            /\ rows[i].Invoice_Month = ""
            /\ rows[i].Paid_Date = ""
            /\ rows[i].Paid = FALSE
            /\ rows[i].Paid_Amount = Some(Zero)

(***************************************************************************)
(* C9.  In every emitted record the materials cost and the labor cost are  *)
(* at least 0, and so is the total cost, whatever the custom fields,       *)
(* a negative native number included.                                      *)
(***************************************************************************)
C9_CostsNonNegative ==
    \A i \in DOMAIN rows :
        /\ rows[i].Gasto_Materiales.n >= 0
        /\ rows[i].Gasto_Labor.n >= 0
        /\ rows[i].Gastos_Total.n >= 0

(***************************************************************************)
(* SpecFields: extract_fields called alone on a task whose single custom   *)
(* field is labelled with an alias of FIELD_ALIASES, for every alias of    *)
(* every key, the field being a number field (500), a text field ("yes",   *)
(* "2024-03-15") or an enum field ("High").                                *)
(***************************************************************************)
AliasLabels == UNION {FIELD_ALIASES[k] : k \in DOMAIN FIELD_ALIASES}

LabelledFields(a) ==
    {NumberField(a, 500), TextField(a, "yes"), TextField(a, "2024-03-15"), EnumField(a, "High")}

InitFields ==
    /\ IdleRun
    /\ \E a \in AliasLabels : \E cf \in LabelledFields(a) :
           call = [fn |-> "extract_fields",
                   arg |-> Task("t6", "", "", <<>>, <<cf>>, None, None),
                   returned |-> FALSE, ret |-> ExtractDefaults]

CallExtract ==
    /\ call.fn = "extract_fields" /\ ~call.returned
    /\ call' = [call EXCEPT !.returned = TRUE, !.ret = extract_fields(call.arg)]
    /\ UNCHANGED runVars

NextFields == CallExtract

SpecFields == InitFields /\ [][NextFields]_vars

(***************************************************************************)
(* C11.  Alias table reachability: for every key K and every alias a       *)
(* registered for K, extract_fields on a task whose single custom field    *)
(* is labelled exactly a leaves every key other than K at its default,     *)
(* and puts the field's value in K: the number 500 of a number field in a  *)
(* numeric key, the text of a text field in a textual key, true for the    *)
(* text "yes" in a flag.  In particular "PAID AMOUNT" and "MONTO PAGADO"   *)
(* with the number 500 give paid_amount = 500, and "PAID DATE" gives       *)
(* paid_date.                                                              *)
(***************************************************************************)
NumericKeys == {"approved_value", "paid_amount", "materials_cost", "labor_cost"}

FlagKeys == {"paid_flag", "canceled_flag"}

\* the value the claim expects in key K for the single field cf (the default
\* of K where the claim says nothing for this kind of field)
ClaimValue(K, cf) ==
    IF K \in NumericKeys
    THEN IF cf.number_value = <<>> THEN ExtractDefaults[K]
         ELSE IF K \in {"materials_cost", "labor_cost"} THEN cf.number_value[1]
         ELSE cf.number_value
    ELSE IF K \in FlagKeys
    THEN cf.text_value = <<"yes">>
    ELSE IF cf.text_value # <<>> THEN cf.text_value[1]
    ELSE IF cf.enum_name # <<>> THEN cf.enum_name[1]
    ELSE cf.display_value[1]

C11_AliasReachable ==
    (call.fn = "extract_fields" /\ call.returned) =>
        \A K \in DOMAIN FIELD_ALIASES :
            call.arg.custom_fields[1].name \in FIELD_ALIASES[K] =>
                /\ call.ret[K] = ClaimValue(K, call.arg.custom_fields[1])
                /\ \A J \in DOMAIN FIELD_ALIASES \ {K} : call.ret[J] = ExtractDefaults[J]

(***************************************************************************)
(* C12.  The paid flag of an emitted record is true if and only if the     *)
(* last custom field of the task that resolves to paid_flag has, trimmed   *)
(* and lower-cased, one of the tokens 1, true, yes, si, sí, paid, or the   *)
(* paid_date text extracted from the task is not empty; so a task with an  *)
(* extracted paid date and no truthy paid field is reported paid, and a    *)
(* task with neither is reported not paid.                                 *)
(***************************************************************************)
\* the keys in the order the fields are tested in
KeyOrder ==
    <<"client", "zone", "approved_value", "invoice_date", "paid_flag", "paid_date", "paid_amount",
      "priority", "status", "canceled_flag", "canceled_date", "type", "wo_number",
      "materials_cost", "labor_cost">>

\* the key a field label resolves to: the first in the order that has an alias
\* equal to, or contained in, the normalized label ("" when there is none)
ResolvedKey(label) ==
    LET hits == {k \in DOMAIN KeyOrder :
                    \E a \in FIELD_ALIASES[KeyOrder[k]] : Contains(normalize_upper(label), a)}
    IN  IF hits = {} THEN "" ELSE KeyOrder[CHOOSE k \in hits : \A j \in hits : k <= j]

\* the best available text of a field among the given representations
RECURSIVE BestText(_)
BestText(reps) ==
    IF reps = <<>> THEN ""
    ELSE IF Head(reps) # <<>> /\ Head(reps)[1] # "" THEN Head(reps)[1]
    ELSE BestText(Tail(reps))

\* the last custom field of task t that resolves to key, in a sequence (empty
\* when none does)
LastResolved(t, key) ==
    LET hits == {k \in DOMAIN t.custom_fields : ResolvedKey(t.custom_fields[k].name) = key}
    IN  IF hits = {} THEN <<>>
        ELSE <<t.custom_fields[CHOOSE k \in hits : \A j \in hits : k >= j]>>

ClaimPaid(t) ==
    LET flag == LastResolved(t, "paid_flag")
        date == LastResolved(t, "paid_date")
    IN  \/ /\ flag # <<>>
           /\ StrLower(Strip(BestText(<<flag[1].display_value, flag[1].text_value, flag[1].enum_name>>)))
                  \in {"1", "true", "yes", "si", "sí", "paid"}
        \/ /\ date # <<>>
           /\ Strip(BestText(<<date[1].display_value, date[1].text_value>>)) # ""

C12_PaidFlag ==
    (Len(projects) = 1 /\ pidx = 1 /\ Len(tasks) = 1 /\ Len(rows) = 1) =>
        (rows[1].Paid <=> ClaimPaid(tasks[1]))

\* reached: a finished run whose task has a paid date, a paid field that is
\* not truthy, and a record that says paid
C12_Witness ==
    /\ pc = "done"
    /\ Len(rows) = 1
    /\ tasks[1].custom_fields = <<TextField("Paid", "no"), TextField("Fecha de pago", "2024-03-15")>>
    /\ rows[1].Paid = TRUE
    /\ rows[1].Paid_Date = "03/15/2024"

====
